---- MODULE Spec2Model ----
(***************************************************************************)
(* Model of src/main.py: the serial ingest loop of main() (framing of the  *)
(* byte stream on END_BYTES, permissive decoding, identifier extraction    *)
(* with the pattern /m/(\d{6,12})/, label composition, timestamped save)   *)
(* and its two exception handlers.                                         *)
(*                                                                         *)
(* Bytes are the integers 0..255, decoded characters are Unicode code      *)
(* points, byte strings and text are sequences of them.                    *)
(***************************************************************************)
EXTENDS Integers, Sequences, FiniteSets

VARIABLES
    pc,       \* position of main(): start, open, read, match, compose, save, saving, done
    ser,      \* the serial handle: unopened, open, closed
    buf,      \* the bytearray buf of main()
    raw,      \* bytes(buf) of the last terminated buffer (operand of decode)
    line,     \* the last Line (decoded and stripped)
    uid,      \* m.group(1) of the last match
    target,   \* the path `file` of the save in progress
    created,  \* whether that save created the file (it did not exist before)
    files,    \* the output directory: file name -> "partial" | "complete"
    now,      \* the wall clock, in ticks of 1/TicksPerSecond second
    exc,      \* the exception that left the loop, "none" while it runs
    exit,     \* the process exit status, -1 while it runs
    logged,   \* number of success messages logged (line 137)
    reads,    \* number of ser.read calls made
    stream,   \* history: every byte returned by ser.read, concatenated
    lines     \* history: every Line emitted by the framer, in order

vars == <<pc, ser, buf, raw, line, uid, target, created, files, now, exc, exit,
          logged, reads, stream, lines>>

(***************************************************************************)
(* Bounds of the model.                                                    *)
(***************************************************************************)
MaxReads == 3
MaxClock == 2
TicksPerSecond == 2
MaxRun == 13

(***************************************************************************)
(* Program constants.                                                      *)
(***************************************************************************)
END_BYTE == 13
MinDigits == 6
MaxDigits == 12

END_BYTES == <<END_BYTE>>
PREFIX == <<85, 75>>
Slash == 47
LetterM == 109

Rep(x, k) == [i \in 1..k |-> x]

RECURSIVE Flatten(_)
Flatten(ss) == IF ss = <<>> THEN <<>> ELSE Head(ss) \o Flatten(Tail(ss))

(***************************************************************************)
(* bytes.decode(errors="ignore"): UTF-8, every byte that is not part of a  *)
(* well-formed sequence is dropped.                                        *)
(***************************************************************************)
IsCont(b) == 128 <= b /\ b <= 191

\* Length of the well-formed UTF-8 sequence that starts at b[i], 0 if none.
SeqLenAt(b, i) ==
    LET n  == Len(b)
        b0 == b[i]
        c(k) == i + k <= n /\ IsCont(b[i + k])
        rng(k, lo, hi) == i + k <= n /\ lo <= b[i + k] /\ b[i + k] <= hi
    IN  IF b0 < 128 THEN 1
        ELSE IF 194 <= b0 /\ b0 <= 223 THEN (IF c(1) THEN 2 ELSE 0)
        ELSE IF b0 = 224 THEN (IF rng(1, 160, 191) /\ c(2) THEN 3 ELSE 0)
        ELSE IF b0 = 237 THEN (IF rng(1, 128, 159) /\ c(2) THEN 3 ELSE 0)
        ELSE IF 225 <= b0 /\ b0 <= 239 THEN (IF c(1) /\ c(2) THEN 3 ELSE 0)
        ELSE IF b0 = 240 THEN (IF rng(1, 144, 191) /\ c(2) /\ c(3) THEN 4 ELSE 0)
        ELSE IF b0 = 244 THEN (IF rng(1, 128, 143) /\ c(2) /\ c(3) THEN 4 ELSE 0)
        ELSE IF 241 <= b0 /\ b0 <= 243 THEN (IF c(1) /\ c(2) /\ c(3) THEN 4 ELSE 0)
        ELSE 0

CodePointAt(b, i, n) ==
    IF n = 1 THEN b[i]
    ELSE IF n = 2 THEN (b[i] - 192) * 64 + (b[i + 1] - 128)
    ELSE IF n = 3 THEN (b[i] - 224) * 4096 + (b[i + 1] - 128) * 64 + (b[i + 2] - 128)
    ELSE (b[i] - 240) * 262144 + (b[i + 1] - 128) * 4096
         + (b[i + 2] - 128) * 64 + (b[i + 3] - 128)

RECURSIVE DecodeFrom(_, _, _)
DecodeFrom(b, i, marker) ==
    IF i > Len(b) THEN <<>>
    ELSE LET n == SeqLenAt(b, i)
         IN  IF n = 0 THEN marker \o DecodeFrom(b, i + 1, marker)
             ELSE <<CodePointAt(b, i, n)>> \o DecodeFrom(b, i + n, marker)

\* errors="replace": a marker U+FFFD stands where bytes could not be decoded.
DecodeReplace(b) == DecodeFrom(b, 1, <<65533>>)

Decode(b) == DecodeFrom(b, 1, <<>>)

\* str.encode(): the UTF-8 encoding of one code point, and of a text.
Utf8(cp) ==
    IF cp < 128 THEN <<cp>>
    ELSE IF cp < 2048 THEN <<192 + (cp \div 64), 128 + (cp % 64)>>
    ELSE IF cp < 65536
         THEN <<224 + (cp \div 4096), 128 + ((cp \div 64) % 64), 128 + (cp % 64)>>
    ELSE <<240 + (cp \div 262144), 128 + ((cp \div 4096) % 64),
           128 + ((cp \div 64) % 64), 128 + (cp % 64)>>

Encode(s) == Flatten([i \in 1..Len(s) |-> Utf8(s[i])])

(***************************************************************************)
(* str.strip(): leading and trailing characters with str.isspace() go.     *)
(***************************************************************************)
SpaceRanges ==
    { <<9, 13>>, <<28, 32>>, <<133, 133>>, <<160, 160>>, <<5760, 5760>>,
      <<8192, 8202>>, <<8232, 8233>>, <<8239, 8239>>, <<8287, 8287>>,
      <<12288, 12288>> }

IsSpace(c) == \E r \in SpaceRanges : r[1] <= c /\ c <= r[2]

Strip(s) ==
    LET keep == { i \in 1..Len(s) : ~IsSpace(s[i]) }
    IN  IF keep = {} THEN <<>>
        ELSE LET lo == CHOOSE i \in keep : \A j \in keep : i <= j
                 hi == CHOOSE i \in keep : \A j \in keep : j <= i
             IN  SubSeq(s, lo, hi)

(***************************************************************************)
(* re.search(r"/m/(\d{6,12})/", line).  \d of a str pattern is every       *)
(* Unicode decimal digit; each range below starts at the zero of a script. *)
(***************************************************************************)
DigitRanges ==
    { <<48, 57>>, <<1632, 1641>>, <<1776, 1785>>, <<1984, 1993>>,
      <<2406, 2415>>, <<2534, 2543>>, <<2662, 2671>>, <<2790, 2799>>,
      <<2918, 2927>>, <<3046, 3055>>, <<3174, 3183>>, <<3302, 3311>>,
      <<3430, 3439>>, <<3558, 3567>>, <<3664, 3673>>, <<3792, 3801>>,
      <<3872, 3881>>, <<4160, 4169>>, <<4240, 4249>>, <<6112, 6121>>,
      <<6160, 6169>>, <<6470, 6479>>, <<6608, 6617>>, <<6784, 6793>>,
      <<6800, 6809>>, <<6992, 7001>>, <<7088, 7097>>, <<7232, 7241>>,
      <<7248, 7257>>, <<42528, 42537>>, <<43216, 43225>>, <<43264, 43273>>,
      <<43472, 43481>>, <<43504, 43513>>, <<43600, 43609>>, <<44016, 44025>>,
      <<65296, 65305>>, <<66720, 66729>>, <<68912, 68921>>, <<69734, 69743>>,
      <<69872, 69881>>, <<69942, 69951>>, <<70096, 70105>>, <<70384, 70393>>,
      <<70736, 70745>>, <<70864, 70873>>, <<71248, 71257>>, <<71360, 71369>>,
      <<71472, 71481>>, <<71904, 71913>>, <<72016, 72025>>, <<72784, 72793>>,
      <<73040, 73049>>, <<73120, 73129>>, <<92768, 92777>>, <<92864, 92873>>,
      <<93008, 93017>>, <<120782, 120831>>, <<123200, 123209>>,
      <<123632, 123641>>, <<125264, 125273>>, <<130032, 130041>> }

IsDigit(c) == \E r \in DigitRanges : r[1] <= c /\ c <= r[2]

IsAsciiDigit(c) == 48 <= c /\ c <= 57

NoMatch == <<>>

\* The literal prefix "/m/" of the pattern at position i.
LiteralAt(s, i) ==
    i + 2 <= Len(s) /\ s[i] = Slash /\ s[i + 1] = LetterM /\ s[i + 2] = Slash

\* \d{6,12} is greedy: the digits taken from position j, at most `most`.
RECURSIVE Greedy(_, _, _)
Greedy(s, j, most) ==
    IF most = 0 \/ j > Len(s) \/ ~IsDigit(s[j]) THEN 0
    ELSE 1 + Greedy(s, j + 1, most - 1)

\* A quantifier with no upper limit, \d{6,}, cut to the first MaxDigits.
BacktrackCut(s, j, k) ==
    IF k < MinDigits THEN NoMatch ELSE SubSeq(s, j, j + k - 1)

\* Backtracking: give digits back until "/" follows, never fewer than 6.
RECURSIVE Backtrack(_, _, _)
Backtrack(s, j, k) ==
    IF k < MinDigits THEN NoMatch
    ELSE IF j + k <= Len(s) /\ s[j + k] = Slash THEN SubSeq(s, j, j + k - 1)
    ELSE Backtrack(s, j, k - 1)

\* The group of a match that starts at i, or NoMatch.
MatchAt(s, i) ==
    IF LiteralAt(s, i) THEN Backtrack(s, i + 3, Greedy(s, i + 3, MaxDigits))
    ELSE NoMatch

\* re.search: the first start position, left to right, with a match.
RECURSIVE SearchFrom(_, _)
SearchFrom(s, i) ==
    IF i > Len(s) THEN NoMatch
    ELSE LET m == MatchAt(s, i)
         IN  IF m # NoMatch THEN m ELSE SearchFrom(s, i + 1)

Search(s) == SearchFrom(s, 1)

(***************************************************************************)
(* The file sink: label_<PREFIX><uid>_<YYYYMMDD_HHMMSS>.png.  strftime     *)
(* keeps the whole seconds of datetime.now() and drops the fraction.       *)
(***************************************************************************)
FullCode(u) == PREFIX \o u

Timestamp(t) == t \div TicksPerSecond

FileName(u, t) == [code |-> FullCode(u), second |-> Timestamp(t)]

NoFile == [code |-> <<>>, second |-> 0]

\* The directory after open(name, "w+b"): the file exists, empty or truncated.
Opened(fs, name) ==
    [f \in DOMAIN fs \cup {name} |-> IF f = name THEN "partial" ELSE fs[f]]

\* The directory after the encoder wrote its last block and the file closed.
Closed(fs, name) == [fs EXCEPT ![name] = "complete"]

\* The directory after os.remove(name).
Removed(fs, name) == [f \in DOMAIN fs \ {name} |-> fs[f]]

(***************************************************************************)
(* What ser.read(ser.in_waiting or 1) may return: nothing on a timeout,    *)
(* otherwise whatever the device has delivered so far.                     *)
(***************************************************************************)
\* The bytes and characters the inputs are built from: the ASCII digits 1
\* and 2, ARABIC-INDIC DIGIT ONE, the letter x, a byte that is never UTF-8.
Sym == [one |-> 49, two |-> 50, arabicOne |-> 1633, x |-> 120, bad |-> 255]

Ascii1  == Sym.one
Ascii2  == Sym.two
Arabic1 == Sym.arabicOne
LetterX == Sym.x
BadByte == Sym.bad

Pattern(d, k) == <<Slash, LetterM, Slash>> \o Rep(d, k) \o <<Slash>>

ChunkEmpty    == <<>>
ChunkScan     == Pattern(Ascii1, MinDigits) \o END_BYTES
ChunkGarbage  == <<LetterX>> \o END_BYTES
ChunkHead     == <<LetterX, LetterX, Slash, LetterM, Slash, Ascii2, Ascii2>>
ChunkTail     == Rep(Ascii2, MinDigits - 1) \o <<Slash>> \o END_BYTES
ChunkTwoScans == Pattern(Ascii1, MinDigits) \o END_BYTES
                 \o Pattern(Ascii2, MinDigits) \o END_BYTES
ChunkStraddle == <<LetterX>> \o END_BYTES \o <<LetterX>>
ChunkArabic   == Encode(Pattern(Arabic1, MinDigits)) \o END_BYTES
ChunkCorrupt  == <<Slash, LetterM, Slash>> \o Rep(Ascii1, 3) \o <<BadByte>>
                 \o Rep(Ascii1, 3) \o <<Slash>> \o END_BYTES

Chunks ==
    { ChunkEmpty, ChunkScan, ChunkGarbage, ChunkHead, ChunkTail,
      ChunkTwoScans, ChunkStraddle, ChunkArabic, ChunkCorrupt }

(***************************************************************************)
(* The framer, lines 121-124.                                              *)
(***************************************************************************)
EndsWith(b, suffix) ==
    Len(b) >= Len(suffix)
    /\ SubSeq(b, Len(b) - Len(suffix) + 1, Len(b)) = suffix

ToLine(b) == Strip(Decode(b))

(***************************************************************************)
(* Leaving the loop.  An exception raised inside the with block first runs *)
(* the handle's __exit__, then reaches one of the two except clauses.      *)
(***************************************************************************)
WithExitLeak(s) == s

\* serial.Serial.__exit__: close().
WithExit(s) == IF s = "open" THEN "closed" ELSE s

ExitStatusAlwaysOne(e) == 1

ExitStatusAlwaysZero(e) == 0

\* except KeyboardInterrupt: log, return (status 0); except Exception: exit(1).
ExitStatus(e) == IF e = "KeyboardInterrupt" THEN 0 ELSE 1

Leave(e) ==
    /\ exc' = e
    /\ ser' = WithExit(ser)
    /\ exit' = ExitStatus(e)
    /\ pc' = "done"

InsideTry == {"open", "read", "match", "compose", "save", "saving"}

(***************************************************************************)
(* Initial state and actions.                                              *)
(***************************************************************************)
Init ==
    /\ pc = "start"
    /\ ser = "unopened"
    /\ buf = <<>>
    /\ raw = <<>>
    /\ line = <<>>
    /\ uid = <<>>
    /\ target = NoFile
    /\ created = FALSE
    /\ files = <<>>
    /\ now = 0
    /\ exc = "none"
    /\ exit = -1
    /\ logged = 0
    /\ reads = 0
    /\ stream = <<>>
    /\ lines = <<>>

\* autodetect_port(), called before the try: PORT is None, so exactly one
\* port must be present; otherwise RuntimeError leaves main() uncaught.
Autodetect ==
    /\ pc = "start"
    /\ \E nports \in 0..2 :
         IF nports = 1
         THEN pc' = "open" /\ UNCHANGED <<exc, exit>>
         ELSE pc' = "done" /\ exc' = "RuntimeError" /\ exit' = 1
    /\ UNCHANGED <<ser, buf, raw, line, uid, target, created, files, now, logged,
                   reads, stream, lines>>

\* with serial.Serial(...) as ser: buf = bytearray()
OpenPort ==
    /\ pc = "open"
    /\ ser' = "open"
    /\ buf' = <<>>
    /\ pc' = "read"
    /\ UNCHANGED <<raw, line, uid, target, created, files, now, exc, exit, logged,
                   reads, stream, lines>>

\* serial.Serial(...) raises SerialException: the port cannot be opened.
OpenFail ==
    /\ pc = "open"
    /\ Leave("SerialException")
    /\ UNCHANGED <<buf, raw, line, uid, target, created, files, now, logged, reads,
                   stream, lines>>

\* Lines 121-124: one read, appended; a buffer that ends with END_BYTES is
\* decoded, stripped and cleared.
Read ==
    /\ pc = "read"
    /\ reads < MaxReads
    /\ \E chunk \in Chunks :
         LET b == buf \o chunk
         IN  /\ stream' = stream \o chunk
             /\ IF EndsWith(b, END_BYTES)
                THEN /\ raw' = b
                     /\ line' = ToLine(b)
                     /\ lines' = Append(lines, ToLine(b))
                     /\ buf' = <<>>
                     /\ pc' = "match"
                ELSE /\ buf' = b
                     /\ pc' = "read"
                     /\ UNCHANGED <<raw, line, lines>>
    /\ reads' = reads + 1
    /\ UNCHANGED <<ser, uid, target, created, files, now, exc, exit, logged>>

\* ser.read raises SerialException: the device went away.
ReadFail ==
    /\ pc = "read"
    /\ Leave("SerialException")
    /\ UNCHANGED <<buf, raw, line, uid, target, created, files, now, logged, reads,
                   stream, lines>>

\* Lines 126-131: search; no match continues the loop, a match sets uid.
Match ==
    /\ pc = "match"
    /\ LET m == Search(line)
       IN  IF m = NoMatch
           THEN pc' = "read" /\ UNCHANGED uid
           ELSE pc' = "compose" /\ uid' = m
    /\ UNCHANGED <<ser, buf, raw, line, target, created, files, now, exc, exit,
                   logged, reads, stream, lines>>

\* Line 132: compose_label(uid) returns the image.
ComposeOk ==
    /\ pc = "compose"
    /\ pc' = "save"
    /\ UNCHANGED <<ser, buf, raw, line, uid, target, created, files, now, exc, exit,
                   logged, reads, stream, lines>>

\* Line 132: load_logo or make_barcode raises inside compose_label.
ComposeFail ==
    /\ pc = "compose"
    /\ Leave("ComposeError")
    /\ UNCHANGED <<buf, raw, line, uid, target, created, files, now, logged, reads,
                   stream, lines>>

\* Lines 134-136: the timestamp is taken, the name built, the file opened.
SaveBegin ==
    /\ pc = "save"
    /\ target' = FileName(uid, now)
    /\ created' = (FileName(uid, now) \notin DOMAIN files)
    /\ files' = Opened(files, FileName(uid, now))
    /\ pc' = "saving"
    /\ UNCHANGED <<ser, buf, raw, line, uid, now, exc, exit, logged, reads,
                   stream, lines>>

\* Lines 136-137: the image is written out and the success is logged.
SaveEnd ==
    /\ pc = "saving"
    /\ files' = Closed(files, target)
    /\ logged' = logged + 1
    /\ pc' = "read"
    /\ UNCHANGED <<ser, buf, raw, line, uid, target, created, now, exc, exit, reads,
                   stream, lines>>

\* Line 136: the write raises OSError; the imaging library may remove a
\* file it created, or leave what was written so far.
SaveFail ==
    /\ pc = "saving"
    /\ \E removed \in BOOLEAN :
         files' = IF removed /\ created THEN Removed(files, target) ELSE files
    /\ Leave("OSError")
    /\ UNCHANGED <<buf, raw, line, uid, target, created, now, logged, reads, stream,
                   lines>>

\* Ctrl-C: KeyboardInterrupt is raised in the main thread wherever it is
\* inside the try block.
Interrupt ==
    /\ pc \in InsideTry
    /\ Leave("KeyboardInterrupt")
    /\ UNCHANGED <<buf, raw, line, uid, target, created, files, now, logged, reads,
                   stream, lines>>

\* Time passes.
Tick ==
    /\ pc # "done"
    /\ now < MaxClock
    /\ now' = now + 1
    /\ UNCHANGED <<pc, ser, buf, raw, line, uid, target, created, files, exc, exit,
                   logged, reads, stream, lines>>

Next ==
    \/ Autodetect
    \/ OpenPort
    \/ OpenFail
    \/ Read
    \/ ReadFail
    \/ Match
    \/ ComposeOk
    \/ ComposeFail
    \/ SaveBegin
    \/ SaveEnd
    \/ SaveFail
    \/ Interrupt
    \/ Tick

Spec == Init /\ [][Next]_vars

(***************************************************************************)
(* The extractor on its own: the loop right after the framer emitted one   *)
(* Line, for every Line of a family built around the pattern (zero, one or *)
(* two candidate substrings, runs of 0..MaxRun digits of two scripts).     *)
(***************************************************************************)
TestLines ==
    { pre \o <<Slash, LetterM, Slash>> \o Rep(d1, k1) \o sep
          \o Rep(Ascii2, k2) \o post :
        pre \in { <<>>, <<LetterX>>, <<Slash, LetterM>> },
        d1 \in { Ascii1, Arabic1 },
        k1 \in 0..MaxRun,
        sep \in { <<>>, <<Slash>>, <<LetterX>>, <<Slash, LetterM, Slash>> },
        k2 \in 0..MaxRun,
        post \in { <<>>, <<Slash>> } }

InitExtract ==
    /\ pc = "match"
    /\ ser = "open"
    /\ buf = <<>>
    /\ line \in TestLines
    /\ raw = Encode(line) \o END_BYTES
    /\ stream = raw
    /\ lines = <<line>>
    /\ uid = <<>>
    /\ target = NoFile
    /\ created = FALSE
    /\ files = <<>>
    /\ now = 0
    /\ exc = "none"
    /\ exit = -1
    /\ logged = 0
    /\ reads = 1

NextExtract == Match

SpecExtract == InitExtract /\ [][NextExtract]_vars

(***************************************************************************)
(* Properties.                                                             *)
(***************************************************************************)
Range(s) == { s[i] : i \in 1..Len(s) }

RECURSIVE IsSubseq(_, _)
IsSubseq(a, b) ==
    IF a = <<>> THEN TRUE
    ELSE IF b = <<>> THEN FALSE
    ELSE IF Head(a) = Head(b) THEN IsSubseq(Tail(a), Tail(b))
    ELSE IsSubseq(a, Tail(b))

\* The pieces of a byte string, each up to and including a terminator; the
\* bytes after the last terminator are not a piece.
RECURSIVE Pieces(_, _)
Pieces(b, cur) ==
    IF b = <<>> THEN <<>>
    ELSE IF Head(b) = END_BYTE
         THEN <<Append(cur, Head(b))>> \o Pieces(Tail(b), <<>>)
    ELSE Pieces(Tail(b), Append(cur, Head(b)))

SplitLines(b) ==
    LET ps == Pieces(b, <<>>) IN [i \in 1..Len(ps) |-> Strip(Decode(ps[i]))]

\* C1: whatever the chunks the input arrived in, once it ends with the
\* terminator the Lines emitted are those of the concatenated input split on
\* the terminator.
C1_ChunkingInvariance ==
    (stream = <<>> \/ EndsWith(stream, END_BYTES)) => lines = SplitLines(stream)

\* C2: a composition failure writes no file and reads nothing, then or
\* later, and ends the process with a non-zero exit status.
C2_FailFast ==
    [][ exc' = "ComposeError" =>
          /\ pc' = "done"
          /\ exit' > 0
          /\ files' = files
          /\ reads' = reads
          /\ lines' = lines
          /\ logged' = logged ]_vars

C2_Witness ==
    /\ exc = "ComposeError"
    /\ pc = "done"
    /\ Len(uid) >= MinDigits
    /\ reads < MaxReads

\* C3: no run that an operator interrupt ended leaves a label file that was
\* started but not completely written.
C3_NoPartialFileAtExit ==
    exc = "KeyboardInterrupt" => \A f \in DOMAIN files : files[f] = "complete"

\* C4: the identifier is that of the reference: none when the Line holds no
\* "/m/" + 6..12 digits + "/", otherwise the whole digit run of the leftmost.
OccursAt(s, i, k) ==
    /\ i + 3 + k <= Len(s)
    /\ SubSeq(s, i, i + 2) = <<Slash, LetterM, Slash>>
    /\ \A t \in 1..k : IsDigit(s[i + 2 + t])
    /\ s[i + 3 + k] = Slash

Candidates(s) ==
    { c \in (1..Len(s)) \X (MinDigits..MaxDigits) : OccursAt(s, c[1], c[2]) }

Reference(s) ==
    IF Candidates(s) = {} THEN NoMatch
    ELSE LET c == CHOOSE x \in Candidates(s) :
                      \A y \in Candidates(s) : x[1] <= y[1]
         IN  SubSeq(s, c[1] + 3, c[1] + 2 + c[2])

C4_ExtractionMatchesReference ==
    pc # "match" =>
        /\ Cardinality({ c \in Candidates(line) :
                           \A y \in Candidates(line) : c[1] <= y[1] }) <= 1
        /\ IF Reference(line) = NoMatch
           THEN pc = "read" /\ uid = <<>>
           ELSE pc = "compose" /\ uid = Reference(line)

\* A 13-digit run first, rejected whole; the later candidate is captured.
C4_Witness ==
    /\ pc = "compose"
    /\ LiteralAt(line, 1)
    /\ Greedy(line, 4, MaxRun) > MaxDigits
    /\ uid = Rep(Ascii2, MinDigits)

\* C5: the identifier handed to compose_label is 6 to 12 ASCII digits, so
\* the barcode payload is printable ASCII.
C5_IdentifierIsAsciiDigits ==
    pc = "compose" =>
        /\ Len(uid) \in MinDigits..MaxDigits
        /\ \A i \in 1..Len(uid) : IsAsciiDigit(uid[i])
        /\ \A c \in Range(FullCode(uid)) : 32 <= c /\ c < 127

\* Bytes that occur in no UTF-8 sequence.
NeverValid(b) == b \in {192, 193} \/ b >= 245

IsGraph(c) == 33 <= c /\ c <= 126

\* C6, as stated: a Line framed from a buffer with undecodable bytes raises
\* nothing and holds the replacement marker in their place.
C6_UndecodableBytesReplaced ==
    (pc = "match" /\ \E i \in 1..Len(raw) : NeverValid(raw[i])) =>
        exc = "none" /\ 65533 \in Range(line)

\* C6, amended: framing raises nothing and undecodable bytes are removed
\* with nothing put in their place: the Line's encoding is a subsequence of
\* the buffer, and the buffer's printable ASCII bytes are all kept, in order.
C6_UndecodableBytesRemoved ==
    /\ pc = "match" => exc = "none" /\ exit = -1
    /\ IsSubseq(Encode(line), raw)
    /\ SelectSeq(line, IsGraph) = SelectSeq(raw, IsGraph)

\* The bytes around the undecodable one met, and made an identifier.
C6_Witness ==
    /\ pc = "compose"
    /\ raw = ChunkCorrupt
    /\ line = Pattern(Ascii1, MinDigits)
    /\ uid = Rep(Ascii1, MinDigits)

\* C7: an operator interrupt ends the run with exit status 0; from then on
\* no Line is emitted and no file is written.
C7_InterruptIsGraceful ==
    [][ exc' = "KeyboardInterrupt" =>
          /\ pc' = "done"
          /\ exit' = 0
          /\ files' = files
          /\ lines' = lines
          /\ logged' = logged
          /\ reads' = reads ]_vars

\* Interrupted with the first half of a scan pending.
C7_Witness ==
    /\ exc = "KeyboardInterrupt"
    /\ pc = "done"
    /\ buf = ChunkHead
    /\ files = <<>>

\* C8: once the loop is left, or an exit status exists, the handle is not open.
C8_HandleReleased == (pc = "done" \/ exit # -1) => ser # "open"

C8_Witness ==
    /\ pc = "done"
    /\ exc = "OSError"
    /\ ser = "closed"

\* C9: the pending buffer holds no terminator before its last byte, and is
\* empty right after a Line was emitted.
C9_BufferHoldsOneLine ==
    /\ \A i \in 1..(Len(buf) - 1) : buf[i] # END_BYTE
    /\ pc = "match" => buf = <<>>

\* C10: between scans, the output directory holds one file per label saved.
C10_NoOverwrite == pc = "read" => Cardinality(DOMAIN files) = logged

====
